---------------------------- MODULE Spec2Model ----------------------------
(***************************************************************************)
(* A model of python-pinballmap (src/pinballmap/client.py): the name       *)
(* normalisation clean_name, the match scorer score_match, the search      *)
(* machine_by_name, and the authorised write operations of                 *)
(* PinballMapClient.                                                       *)
(*                                                                         *)
(* A Python str is modelled as a sequence of one-character strings, so     *)
(* that the regular expressions, str.lower, str.strip, str.split and the   *)
(* substring test are computed character by character as Python does.      *)
(***************************************************************************)
EXTENDS Integers, Sequences, FiniteSets, TLC

(***************************************************************************)
(* Characters.  \w of Python's re is a letter, a digit or the underscore;  *)
(* \W is every other character; \s is whitespace.                          *)
(***************************************************************************)
LowerLetters == <<"a", "b", "c", "d", "e", "f", "g", "h", "i", "j", "k", "l", "m", "n", "o", "p", "q", "r", "s", "t", "u", "v", "w", "x", "y", "z">>
UpperLetters == <<"A", "B", "C", "D", "E", "F", "G", "H", "I", "J", "K", "L", "M", "N", "O", "P", "Q", "R", "S", "T", "U", "V", "W", "X", "Y", "Z">>
Digits == <<"0", "1", "2", "3", "4", "5", "6", "7", "8", "9">>

Range(f) == {f[i] : i \in DOMAIN f}

Letters == Range(LowerLetters) \cup Range(UpperLetters)
AlnumChars == Letters \cup Range(Digits)
WordChars == AlnumChars \cup {"_"}
SpaceChars == {" ", "\t", "\n"}
PunctChars == {"-", "!", "(", ")", ".", "'"}
Chars == WordChars \cup SpaceChars \cup PunctChars
NonWordChars == Chars \ WordChars

NonSpaceChars == Chars \ SpaceChars

\* x in tup, for a Python tuple or list
in_tuple(x, tup) == \E k \in DOMAIN tup : tup[k] = x

\* str.lower for one character: an upper-case letter becomes its lower-case
\* letter, every other character is kept
LowerOf ==
    [c \in Chars |->
        IF in_tuple(c, UpperLetters)
        THEN LowerLetters[CHOOSE i \in DOMAIN UpperLetters : UpperLetters[i] = c]
        ELSE c]

lower_char(c) == LowerOf[c]

\* str.lower
lower(s) == [i \in DOMAIN s |-> lower_char(s[i])]

\* the length of the maximal run of characters of class cls that s starts with
RECURSIVE run_length(_, _)
run_length(cls, s) ==
    IF s = <<>> \/ Head(s) \notin cls THEN 0 ELSE 1 + run_length(cls, Tail(s))

\* re.compile(cls{minlen,}).sub(" ", s): every maximal run of at least minlen
\* characters of class cls becomes one space; shorter runs are kept
RECURSIVE regex_sub_runs(_, _, _)
regex_sub_runs(cls, minlen, s) ==
    IF s = <<>> THEN <<>>
    ELSE LET n == run_length(cls, s)
         IN  IF n >= minlen /\ n > 0
             THEN <<" ">> \o regex_sub_runs(cls, minlen, SubSeq(s, n + 1, Len(s)))
             ELSE IF n > 0
             THEN SubSeq(s, 1, n) \o regex_sub_runs(cls, minlen, SubSeq(s, n + 1, Len(s)))
             ELSE <<Head(s)>> \o regex_sub_runs(cls, minlen, Tail(s))

\* punctuation_regex = re.compile(r"\W+"); punctuation_regex.sub(" ", s)
punctuation_regex_sub(s) == regex_sub_runs(NonWordChars, 1, s)

\* spaces_regex = re.compile(r"\s{2,}"); the mutant keeps the runs
spaces_regex_sub_kept(s) == s

spaces_regex_sub(s) == regex_sub_runs(SpaceChars, 2, s)

\* whether r"\b" + word + r"\b" matches s at index i
word_matches_at(word, s, i) ==
    /\ i + Len(word) - 1 <= Len(s)
    /\ SubSeq(s, i, i + Len(word) - 1) = word
    /\ (i = 1 \/ s[i - 1] \notin WordChars)
    /\ (i + Len(word) > Len(s) \/ s[i + Len(word)] \notin WordChars)

\* re.sub(r"\b" + word + r"\b", " ", s), scanning s from index i
RECURSIVE re_sub_word_from(_, _, _)
re_sub_word_from(word, s, i) ==
    IF i > Len(s) THEN <<>>
    ELSE IF word_matches_at(word, s, i)
    THEN <<" ">> \o re_sub_word_from(word, s, i + Len(word))
    ELSE <<s[i]>> \o re_sub_word_from(word, s, i + 1)

re_sub_word(word, s) == re_sub_word_from(word, s, 1)

\* str.strip
RECURSIVE lstrip(_)
lstrip(s) == IF s # <<>> /\ Head(s) \in SpaceChars THEN lstrip(Tail(s)) ELSE s

RECURSIVE rstrip(_)
rstrip(s) ==
    IF s # <<>> /\ s[Len(s)] \in SpaceChars
    THEN rstrip(SubSeq(s, 1, Len(s) - 1))
    ELSE s

strip(s) == rstrip(lstrip(s))

\* str.split(): the maximal runs of non-whitespace characters, in order
RECURSIVE split(_)
split(s) ==
    LET t == lstrip(s)
        n == run_length(NonSpaceChars, t)
    IN  IF t = <<>> THEN <<>>
        ELSE <<SubSeq(t, 1, n)>> \o split(SubSeq(t, n + 1, Len(t)))

\* q in t, for two str
is_substring(q, t) ==
    \E i \in 0..(Len(t) - Len(q)) : SubSeq(t, i + 1, i + Len(q)) = q

STRIP_WORDS == <<<<"t", "h", "e">>, <<"a", "n", "d">>, <<"f", "o", "r">>, <<"w", "i", "t", "h">>, <<"a">>, <<"o", "f">>>>
MODEL_ENDINGS == <<<<"l", "e">>, <<"p", "r", "o">>, <<"p", "r", "e", "m", "i", "u", "m">>, <<"e", "d", "i", "t", "i", "o", "n", "s", "t", "a", "n", "d", "a", "r", "d">>>>

\* for word in STRIP_WORDS: s = re.sub(pattern, " ", s), from the k-th word on
RECURSIVE strip_words_from(_, _)
strip_words_from(s, k) ==
    IF k > Len(STRIP_WORDS) THEN s
    ELSE strip_words_from(re_sub_word(STRIP_WORDS[k], s), k + 1)

\* clean_name without its fallback for an empty result
clean_name_no_fallback(original) ==
    strip(spaces_regex_sub(strip_words_from(lower(punctuation_regex_sub(original)), 1)))

clean_name(original) ==
    LET s0 == lower(punctuation_regex_sub(original))
        s1 == strip_words_from(s0, 1)
        s2 == strip(spaces_regex_sub(s1))
    IN  IF s2 = <<>>
        THEN strip(spaces_regex_sub(lower(original)))
        ELSE s2

\* whether clean_name(original) takes the branch "if not s"
takes_fallback(original) == clean_name_no_fallback(original) = <<>>


(***************************************************************************)
(* score_match.  A call either returns an int or raises: the outcome is    *)
(* the record [exc |-> "", val |-> n] or [exc |-> "IndexError", val |-> 0].*)
(***************************************************************************)
EXACT_MATCH_SCORE == 150

Return(n) == [exc |-> "", val |-> n]
Raise(e) == [exc |-> e, val |-> 0]

\* the bonus of one matching query word, with the length test off by one
word_bonus_off_by_one(query_word) ==
    IF Len(query_word) > 3 THEN 5 + Len(query_word) * 2 ELSE 1

\* lines 75-78: the bonus of a query word found among the item's words
word_bonus(query_word) ==
    IF Len(query_word) >= 3 THEN 5 + Len(query_word) * 2 ELSE 1

\* lines 71-78: the loop over query_words from index i on, score so far given
RECURSIVE score_loop(_, _, _, _, _)
score_loop(query_words, i, last_word, g_words, score) ==
    IF i > Len(query_words) THEN score
    ELSE LET query_word == query_words[i]
         IN  IF query_word = last_word
             THEN score_loop(query_words, i + 1, last_word, g_words, score)
             ELSE IF in_tuple(query_word, g_words)
             THEN score_loop(query_words, i + 1, last_word, g_words,
                             score + word_bonus(query_word))
             ELSE score_loop(query_words, i + 1, last_word, g_words, score)

score_match(query_string, machine_data, query_words) ==
    IF query_string = machine_data.cleaned_name
    THEN Return(EXACT_MATCH_SCORE)
    ELSE LET score1 == IF is_substring(query_string, machine_data.cleaned_name)
                       THEN 2 ELSE 0
             g_words == split(machine_data.cleaned_name)
         IN  IF g_words = <<>>
             THEN Raise("IndexError")      \* g_words[-1] of an empty list
             ELSE LET last_word == g_words[Len(g_words)]
                      score2 == IF in_tuple(last_word, MODEL_ENDINGS)
                                THEN score1 - 2 ELSE score1
                  IN  Return(score_loop(query_words, 1, last_word, g_words, score2))

\* " ".join(words)
RECURSIVE join(_)
join(words) ==
    IF words = <<>> THEN <<>>
    ELSE IF Len(words) = 1 THEN words[1]
    ELSE words[1] \o <<" ">> \o join(Tail(words))

\* lines 222-223 of get_all_machines: a machine of the API's list, patched
\* with its searchable cleaned name
patch_machine(id, name) == [id |-> id, name |-> name, cleaned_name |-> clean_name(name)]

(***************************************************************************)
(* PinballMapClient: the write operations and their authorisation guard.   *)
(* None and the empty string, both false in Python, are "".  Pinball Map   *)
(* is the environment: each request is answered by one of the answers the  *)
(* API can give.                                                           *)
(***************************************************************************)
LOCATION_ID == 1        \* self.location_id
OTHER_LOCATION == 2     \* another location of the region
MaxMachineId == 2
MaxLmxId == 3

Machines == 1..MaxMachineId
ServerToken == "token"
ServerEmail == "email@example.com"
Tokens == {"", ServerToken}
Emails == {"", ServerEmail}
Passwords == {"", "password"}

\* GET users/auth_details.json (lines 616-624): the user, an "errors" answer
\* (PinballMapAuthenticationFailure) or a bad status (raise_for_status)
AuthAnswers(ok) == IF ok THEN {"user", "http_error"} ELSE {"errors", "http_error"}
WriteAnswers == {"ok", "errors", "http_error"}

\* the mutant runs f whatever auth_details answered
requires_authorization_lenient(token, email, password, auth) ==
    IF token = "" /\ email # "" /\ password # ""
    THEN [entered |-> TRUE, exc |-> "", asked |-> <<auth>>,
          token |-> IF auth = "user" THEN ServerToken ELSE token,
          email |-> IF auth = "user" THEN ServerEmail ELSE email]
    ELSE [entered |-> TRUE, exc |-> "", asked |-> <<>>, token |-> token, email |-> email]

\* lines 92-106, the wrapper of requires_authorization: whether f is entered,
\* what is raised otherwise, the answers of the auth_details requests made
\* (asked), and the token and email auth_details left (_update_self, lines
\* 495-500); auth is the answer to auth_details
requires_authorization(token, email, password, auth) ==
    IF token = "" /\ email # ""
    THEN IF email # "" /\ password # ""
         THEN CASE auth = "user" ->
                       [entered |-> TRUE, exc |-> "", asked |-> <<auth>>,
                        token |-> ServerToken, email |-> ServerEmail]
                [] auth = "errors" ->
                       [entered |-> FALSE, exc |-> "TokenRequiredException",
                        asked |-> <<auth>>, token |-> token, email |-> email]
                [] OTHER ->
                       [entered |-> FALSE, exc |-> "HTTPError",
                        asked |-> <<auth>>, token |-> token, email |-> email]
         ELSE [entered |-> FALSE, exc |-> "TokenRequiredException",
               asked |-> <<>>, token |-> token, email |-> email]
    ELSE [entered |-> TRUE, exc |-> "", asked |-> <<>>, token |-> token, email |-> email]

\* the machine ids Pinball Map lists for a location
listed_machines(map, location) == {l.machine : l \in {x \in map : x.location = location}}

\* a set of LMXs as the list the API answers, in the order of their ids
RECURSIVE lmx_list(_)
lmx_list(set) ==
    IF set = {} THEN <<>>
    ELSE LET first == CHOOSE l \in set : \A o \in set : l.id <= o.id
         IN  <<first>> \o lmx_list(set \ {first})

\* lines 264-266: the LMXs of raw_data whose location is location_id
RECURSIVE filter_location(_, _)
filter_location(raw_data, location_id) ==
    IF raw_data = <<>> THEN <<>>
    ELSE IF Head(raw_data).location = location_id
    THEN <<Head(raw_data)>> \o filter_location(Tail(raw_data), location_id)
    ELSE filter_location(Tail(raw_data), location_id)

\* get_location_machine_xrefs (lines 243-271) on the client state c; http_ok
\* is whether the request, if one is made, is answered with status 200
get_location_machine_xrefs(c, has_cache, http_ok) ==
    IF Len(c.lmxs) > 0
    THEN [c |-> c, exc |-> "", data |-> c.lmxs]
    ELSE IF has_cache /\ c.cache # <<>>
    THEN [c |-> [c EXCEPT !.lmxs = c.cache], exc |-> "", data |-> c.cache]
    ELSE IF ~http_ok
    THEN [c |-> c, exc |-> "HTTPError", data |-> <<>>]
    ELSE LET data == filter_location(lmx_list(c.map), c.location)
         IN  [c |-> [c EXCEPT !.lmxs = data,
                              !.cache = IF has_cache THEN data ELSE @],
              exc |-> "", data |-> data]

NoLmx == [id |-> 0, location |-> 0, machine |-> 0]

\* lines 379-382 of lmx_by_machine_id: the first LMX of the machine, or {}
RECURSIVE first_lmx(_, _)
first_lmx(list, machine_id) ==
    IF list = <<>> THEN NoLmx
    ELSE IF Head(list).machine = machine_id THEN Head(list)
    ELSE first_lmx(Tail(list), machine_id)

\* whether Pinball Map accepts the credentials of a write request
valid_credentials(c) == c.token = ServerToken /\ c.email = ServerEmail

write_request(method, c) == [method |-> method, user_email |-> c.email, user_token |-> c.token]

\* lines 443-458 of add_machine, the POST; answer is Pinball Map's answer,
\* accepted only with valid credentials
post_machine(c, machine_id, answer) ==
         LET posted == [c EXCEPT !.sent = @ \cup {write_request("POST", c)}]
             is_listed == machine_id \in listed_machines(c.map, LOCATION_ID)
             accepted == /\ answer = "ok"
                         /\ valid_credentials(c)
                         /\ (is_listed \/ c.next <= MaxLmxId)
         IN  IF accepted
             THEN [c |-> IF is_listed THEN posted
                         ELSE [posted EXCEPT
                                 !.map = @ \cup {[id |-> c.next, location |-> LOCATION_ID,
                                                  machine |-> machine_id]},
                                 !.next = @ + 1],
                   ret |-> Return("result")]
             ELSE IF answer = "errors"
             THEN [c |-> posted, ret |-> Return("errors")]
             ELSE [c |-> posted, ret |-> Raise("HTTPError")]

\* the mutant posts in dry-run mode too
add_machine_wet(c, dry, machine_id, answer) == post_machine(c, machine_id, answer)

\* the body of add_machine (lines 437-458): nothing is sent in dry-run mode
add_machine(c, dry, machine_id, answer) ==
    IF dry THEN [c |-> c, ret |-> Return("None")]
    ELSE post_machine(c, machine_id, answer)

\* the body of remove_machine (lines 394-425); http_ok answers the request
\* for the LMXs, answer the DELETE
remove_machine(c, dry, has_cache, machine_id, http_ok, answer) ==
    LET got == get_location_machine_xrefs(c, has_cache, http_ok)
        lmx == first_lmx(got.data, machine_id)
        deleted == [got.c EXCEPT !.sent = @ \cup {write_request("DELETE", c)}]
        accepted == /\ answer = "ok"
                    /\ valid_credentials(c)
                    /\ \E l \in c.map : l.id = lmx.id
    IN  IF got.exc # "" THEN [c |-> got.c, ret |-> Raise(got.exc)]
        ELSE IF lmx = NoLmx THEN [c |-> got.c, ret |-> Return("None")]
        ELSE IF dry THEN [c |-> got.c, ret |-> Return("None")]
        ELSE IF accepted
        THEN [c |-> [deleted EXCEPT !.map = {l \in @ : l.id # lmx.id}],
              ret |-> Return("result")]
        ELSE IF answer = "errors"
        THEN [c |-> deleted, ret |-> Return("errors")]
        ELSE [c |-> deleted, ret |-> Raise("HTTPError")]

\* a write operation behind its guard: g is the outcome of the wrapper and
\* body the outcome of the function if it is entered
guarded(c, g, body) ==
    IF g.entered THEN body
    ELSE [c |-> [c EXCEPT !.token = g.token, !.email = g.email], ret |-> Raise(g.exc)]

(***************************************************************************)
(* Bounded inputs.                                                         *)
(***************************************************************************)
MaxNameLen == 4

\* the characters the enumerated names are made of: a stop word ("a"), an
\* upper-case letter, a letter of no stop word, the underscore, two kinds of
\* whitespace and a punctuation character
NameAlphabet == {"a", "A", "x", "_", " ", "\t", "-"}

RECURSIVE StringsUpTo(_, _)
StringsUpTo(alphabet, n) ==
    IF n = 0 THEN {<<>>}
    ELSE LET shorter == StringsUpTo(alphabet, n - 1)
         IN  shorter \cup {Append(t, c) : t \in {u \in shorter : Len(u) = n - 1}, c \in alphabet}

ExampleNames ==
    { <<"T", "h", "e", " ", "T", "h", "e">>, <<"T", "h", "e", "-", "T", "h", "e">>, <<"A", "n", "d", " ", "F", "o", "r", " ", "T", "h", "e">>, <<"M", "e", "d", "i", "e", "v", "a", "l", " ", "M", "a", "d", "n", "e", "s", "s">>,
      <<"A", "t", "t", "a", "c", "k", " ", " ", "f", "r", "o", "m", " ", " ", " ", "M", "a", "r", "s", "!", "!">>, <<"L", "o", "r", "d", " ", "o", "f", " ", "t", "h", "e", " ", "R", "i", "n", "g", "s">> }

CleanInputs == StringsUpTo(NameAlphabet, MaxNameLen) \cup ExampleNames

MaxNameWords == 2
MaxQueryWords == 2

\* the words the scored machine names and queries are made of
NameTokens ==
    { <<"F", "i", "s", "h">>, <<"T", "a", "l", "e", "s">>, <<"(", "L", "E", ")">>, <<"P", "r", "o">>, <<"P", "r", "e", "m", "i", "u", "m">>, <<"E", "d", "i", "t", "i", "o", "n">>,
      <<"S", "t", "a", "n", "d", "a", "r", "d">>, <<"T", "h", "e">>, <<"!", "!">> }
QueryTokens == { <<"f", "i", "s", "h">>, <<"T", "a", "l", "e", "s">>, <<"l", "e">>, <<"p", "r", "o">>, <<"t", "h", "e">> }

ScoreNames == {join(w) : w \in StringsUpTo(NameTokens, MaxNameWords)}
\* a query that repeats a word of a machine's name
ExampleQueries == { <<"f", "i", "s", "h", " ", "f", "i", "s", "h", " ", "f", "i", "s", "h", " ", "f", "i", "s", "h", " ", "f", "i", "s", "h", " ", "f", "i", "s", "h", " ", "f", "i", "s", "h", " ", "f", "i", "s", "h", " ", "f", "i", "s", "h", " ", "f", "i", "s", "h", " ", "f", "i", "s", "h", " ", "f", "i", "s", "h">> }
ScoreQueries ==
    {join(w) : w \in StringsUpTo(QueryTokens, MaxQueryWords)} \cup ExampleQueries

NoMachine == [id |-> 0, name |-> <<>>, cleaned_name |-> <<>>]

MaxMachines == 5

\* the names of the machines of the API's list, the queries and the minimum
\* scores of the searches
MachineNames == { <<"F", "i", "s", "h">>, <<"F", "i", "s", "h", " ", "T", "a", "l", "e", "s">>, <<"F", "i", "s", "h", " ", "T", "a", "l", "e", "s", " ", "(", "P", "r", "o", ")">> }
SearchQueries == { <<"f", "i", "s", "h">>, <<"T", "h", "e", " ", "F", "i", "s", "h", " ", "T", "a", "l", "e", "s">> }
MinScores == {2, 15, 151}

\* the lists GET /machines.json can answer: machine k has id k
ApiMachineLists ==
    { [k \in DOMAIN names |-> [id |-> k, name |-> names[k]]] :
          names \in StringsUpTo(MachineNames, MaxMachines) }

NoCall == [query_string |-> <<>>, min_score |-> 0, include_score |-> FALSE]

\* clean_name and score_match over the machine names and the queries of the
\* model, computed once: cleaned_names[s] is clean_name(s), and
\* match_scores[q, c] is score_match(q, g, q.split()) for a machine g whose
\* cleaned_name is c
CleanedNames == [name \in MachineNames |-> clean_name(name)]
CleanedQueries == [query \in SearchQueries |-> clean_name(query)]
MatchScores ==
    [q \in Range(CleanedQueries), c \in Range(CleanedNames) |->
        score_match(q, [id |-> 0, name |-> <<>>, cleaned_name |-> c], split(q))]

(***************************************************************************)
(* machine_by_name.                                                        *)
(***************************************************************************)
TRUNCATE_LENGTH == 4

\* the mutant keeps only scores above min_score
keeps_match_strictly(score, min_score) == score > min_score

\* line 291: whether a scored machine is kept
keeps_match(score, min_score) == score >= min_score

\* lines 292-294: g.copy() without its cleaned_name
result_data(g) == [id |-> g.id, name |-> g.name]

\* the mutant takes data = g, so that the del of line 293 acts on g itself
aliased_machine(g) == result_data(g)

\* line 292: data = g.copy(); the machine g of the catalog after the del of
\* line 293 acted on data
copied_machine(g) == g

\* lines 289-294: the list all_games as the loop leaves it
games_after_loop(all_games, query_string, min_score) ==
    [j \in DOMAIN all_games |->
        LET g == all_games[j]
            score == MatchScores[query_string, g.cleaned_name]
        IN  IF score.exc = "" /\ keeps_match(score.val, min_score)
            THEN copied_machine(g)
            ELSE g]

\* lines 289-296: the loop over all_games from index i on; results is the
\* list of <<data, score>> built so far
RECURSIVE search_loop(_, _, _, _, _, _, _)
search_loop(all_games, i, query_string, query_words, min_score, results, set_high_bar) ==
    IF i > Len(all_games)
    THEN [exc |-> "", results |-> results, set_high_bar |-> set_high_bar]
    ELSE LET g == all_games[i]
             \* score_match(query_string, g, query_words)
             score == MatchScores[query_string, g.cleaned_name]
         IN  IF score.exc # ""
             THEN [exc |-> score.exc, results |-> <<>>, set_high_bar |-> FALSE]
             ELSE IF keeps_match(score.val, min_score)
             THEN search_loop(all_games, i + 1, query_string, query_words, min_score,
                              Append(results, <<result_data(g), score.val>>),
                              set_high_bar \/ score.val >= EXACT_MATCH_SCORE)
             ELSE search_loop(all_games, i + 1, query_string, query_words, min_score,
                              results, set_high_bar)

\* x put into the descending list before the entries of the same score
insert_before_equal(sorted, x) ==
    LET n == Cardinality({k \in DOMAIN sorted : sorted[k][2] > x[2]})
    IN  SubSeq(sorted, 1, n) \o <<x>> \o SubSeq(sorted, n + 1, Len(sorted))

\* x put into the descending list after every entry whose score is not lower
insert_stable(sorted, x) ==
    LET n == Cardinality({k \in DOMAIN sorted : sorted[k][2] >= x[2]})
    IN  SubSeq(sorted, 1, n) \o <<x>> \o SubSeq(sorted, n + 1, Len(sorted))

\* line 297: sorted(results, key=itemgetter(1), reverse=True), a stable sort:
\* entries of equal score keep the order they have in results
RECURSIVE sorted_reverse(_)
sorted_reverse(results) ==
    IF results = <<>> THEN <<>>
    ELSE insert_stable(sorted_reverse(SubSeq(results, 1, Len(results) - 1)),
                       results[Len(results)])

\* the mutant follows the comment on line 299 ("only include top 5")
truncate_top5(final_results) ==
    IF Len(final_results) > 5 THEN SubSeq(final_results, 1, 5) ELSE final_results

\* line 300: final_results[:4]
truncate(final_results) ==
    IF Len(final_results) > TRUNCATE_LENGTH
    THEN SubSeq(final_results, 1, TRUNCATE_LENGTH)
    ELSE final_results

\* lines 285-303, all_games being what get_all_machines returned
machine_by_name(all_games, query, min_score, include_score) ==
    LET qs == CleanedQueries[query]      \* clean_name(query)
        qw == split(qs)
        found == search_loop(all_games, 1, qs, qw, min_score, <<>>, FALSE)
        sorted == sorted_reverse(found.results)
        final_results == IF found.set_high_bar THEN truncate(sorted) ELSE sorted
    IN  IF found.exc # "" THEN Raise(found.exc)
        ELSE IF include_score THEN Return(final_results)
        ELSE Return([k \in DOMAIN final_results |-> final_results[k][1]])


VARIABLES
    op,         \* the operation that ran last ("init" before any)
    name_in,    \* clean_name: the argument s
    cleaned,    \* clean_name: the value returned
    recleaned,  \* clean_name applied to the value returned
    query_in,      \* the caller's query string
    machine_data,  \* score_match: the machine scored
    query_string,  \* score_match: the cleaned query
    query_words,   \* score_match: the words of the cleaned query
    score_ret,     \* score_match: the outcome
    api_machines,   \* the machines GET /machines.json answers
    use_cache,      \* whether the client has a cache (self.cache)
    cache_machines, \* the cache entry "<prefix>_machines" (<<>>: none)
    search_call,    \* machine_by_name: the arguments of the last call
    all_games,      \* machine_by_name: what get_all_machines returned
    search_ret,     \* machine_by_name: the outcome of the last call
    authentication_token, \* self.authentication_token ("" for None or empty)
    user_email,           \* self.user_email ("" for None or empty)
    user_password,        \* self.user_password ("" for None or empty)
    dry_run,              \* self.dry_run
    lmxs,                 \* self.lmxs, the LMXs of the location kept in memory
    cache_lmxs,           \* the cache entry "<prefix>_lmxs" (<<>>: none)
    map_lmxs,             \* Pinball Map: the LMXs of the region
    next_lmx_id,          \* Pinball Map: the id of the next LMX
    account_ok,           \* Pinball Map: whether the account can log in
    sent,                 \* the POST and DELETE requests sent so far
    write_call,           \* the write operation called last
    write_ret,            \* its outcome
    guard,                \* requires_authorization of the last wrapped call
    update                \* update_map in progress: its local variables

cleanVars == <<name_in, cleaned, recleaned>>
scoreVars == <<query_in, machine_data, query_string, query_words, score_ret>>
searchVars == <<api_machines, use_cache, cache_machines, search_call, all_games, search_ret>>
authVars == <<authentication_token, user_email, user_password, dry_run>>
mapVars == <<lmxs, cache_lmxs, map_lmxs, next_lmx_id, account_ok, sent>>
callVars == <<write_call, write_ret, guard, update>>
clientVars == <<authVars, mapVars, callVars>>
vars == <<op, cleanVars, scoreVars, searchVars, clientVars>>

CleanIdle == name_in = <<>> /\ cleaned = <<>> /\ recleaned = <<>>
ScoreIdle ==
    /\ query_in = <<>>
    /\ machine_data = NoMachine
    /\ query_string = <<>>
    /\ query_words = <<>>
    /\ score_ret = Return(0)
SearchIdle ==
    /\ api_machines = <<>>
    /\ use_cache = FALSE
    /\ cache_machines = <<>>
    /\ search_call = NoCall
    /\ all_games = <<>>
    /\ search_ret = Return(<<>>)
NoGuard ==
    [entered |-> FALSE, token |-> "", email |-> "", asked |-> <<>>,
     token_before |-> "", email_before |-> ""]
NoWrite == [fn |-> "", machine_id |-> 0, machine_ids |-> {}, listed_before |-> {}]
NoUpdate ==
    [active |-> FALSE, add |-> {}, remove |-> {}, ignore |-> {},
     added |-> {}, removed |-> {}, errors |-> {}]
ClientIdle ==
    /\ authentication_token = ""
    /\ user_email = ""
    /\ user_password = ""
    /\ dry_run = FALSE
    /\ lmxs = <<>>
    /\ cache_lmxs = <<>>
    /\ map_lmxs = {}
    /\ next_lmx_id = 1
    /\ account_ok = FALSE
    /\ sent = {}
    /\ write_call = NoWrite
    /\ write_ret = Return(<<>>)
    /\ guard = NoGuard
    /\ update = NoUpdate

(***************************************************************************)
(* SpecClean: clean_name applied to a name, and again to its own result.   *)
(***************************************************************************)
InitClean ==
    /\ op = "init"
    /\ name_in \in CleanInputs
    /\ cleaned = <<>>
    /\ recleaned = <<>>
    /\ ScoreIdle
    /\ SearchIdle
    /\ ClientIdle

CleanName ==
    /\ op = "init"
    /\ op' = "clean_name"
    /\ cleaned' = clean_name(name_in)
    /\ UNCHANGED <<name_in, recleaned, scoreVars, searchVars, clientVars>>

CleanNameAgain ==
    /\ op = "clean_name"
    /\ op' = "clean_name_again"
    /\ recleaned' = clean_name(cleaned)
    /\ UNCHANGED <<name_in, cleaned, scoreVars, searchVars, clientVars>>

NextClean == CleanName \/ CleanNameAgain

SpecClean == InitClean /\ [][NextClean]_vars

(***************************************************************************)
(* Properties of clean_name (checked under SpecClean).                     *)
(***************************************************************************)
CanonicalChars == Range(LowerLetters) \cup Range(Digits) \cup {"_", " "}

\* C6: for every input, the fallback path included, clean_name returns a
\* lower-case string in which every run of characters that are no word
\* characters has become a single space, with no leading or trailing
\* whitespace and no run of two or more whitespace characters.
C6_CleanedIsCanonical ==
    op = "clean_name" =>
        /\ \A i \in DOMAIN cleaned : cleaned[i] \in CanonicalChars
        /\ cleaned = strip(cleaned)
        /\ \A i \in 1..(Len(cleaned) - 1) :
               ~(cleaned[i] \in SpaceChars /\ cleaned[i + 1] \in SpaceChars)

has_alnum(s) == \E i \in DOMAIN s : s[i] \in AlnumChars

\* C7: a name that contains at least one alphanumeric character never
\* cleans to the empty string.
C7_AlnumNameCleansNonEmpty ==
    (op = "clean_name" /\ has_alnum(name_in)) => cleaned # <<>>

\* "The The" is made of stop words only and takes the fallback
C7_Witness ==
    /\ op = "clean_name"
    /\ name_in = <<"T", "h", "e", " ", "T", "h", "e">>
    /\ takes_fallback(name_in)
    /\ cleaned = <<"t", "h", "e", " ", "t", "h", "e">>

InitScore ==
    /\ op = "init"
    /\ CleanIdle
    /\ SearchIdle
    /\ ClientIdle
    /\ query_in \in ScoreQueries
    /\ \E name \in ScoreNames : machine_data = patch_machine(1, name)
    /\ query_string = <<>>
    /\ query_words = <<>>
    /\ score_ret = Return(0)

ScoreMatch ==
    /\ op = "init"
    /\ op' = "score_match"
    /\ query_string' = clean_name(query_in)
    /\ query_words' = split(query_string')
    /\ score_ret' = score_match(query_string', machine_data, query_words')
    /\ UNCHANGED <<query_in, machine_data, cleanVars, searchVars, clientVars>>

NextScore == ScoreMatch

SpecScore == InitScore /\ [][NextScore]_vars

(***************************************************************************)
(* Properties of score_match (checked under SpecScore).                    *)
(***************************************************************************)
RECURSIVE SumSeq(_)
SumSeq(ns) == IF ns = <<>> THEN 0 ELSE Head(ns) + SumSeq(Tail(ns))

\* the score the specification gives a query against a machine whose
\* canonical name cn is not empty, endings being the model/edition suffixes
SpecifiedScore(q, cn, qw, endings) ==
    LET words == split(cn)
        last == words[Len(words)]
        bonus(w) == IF w = last \/ (\A k \in DOMAIN words : words[k] # w) THEN 0
                    ELSE IF Len(w) >= 3 THEN 5 + 2 * Len(w)
                    ELSE 1
    IN  IF q = cn THEN 150
        ELSE (IF is_substring(q, cn) THEN 2 ELSE 0)
             - (IF last \in endings THEN 2 ELSE 0)
             + SumSeq([k \in DOMAIN qw |-> bonus(qw[k])])

\* C4: for a machine with a non-empty canonical name, score_match returns 150
\* on an exact match and otherwise the substring bonus, minus the penalty for
\* a last word in MODEL_ENDINGS, plus the bonus of every query word.
C4_ScoreIsSpecified ==
    (op = "score_match" /\ machine_data.cleaned_name # <<>>) =>
        score_ret = Return(SpecifiedScore(query_string, machine_data.cleaned_name,
                                          query_words, Range(MODEL_ENDINGS)))

\* "fish" against "fish pro": 2 for the substring, -2 for the ending "pro",
\* 5 + 2*4 for the word "fish"
C4_Witness ==
    /\ op = "score_match"
    /\ query_string = <<"f", "i", "s", "h">>
    /\ machine_data.cleaned_name = <<"f", "i", "s", "h", " ", "p", "r", "o">>
    /\ score_ret = Return(13)

FiveEndings == { <<"l", "e">>, <<"p", "r", "o">>, <<"p", "r", "e", "m", "i", "u", "m">>, <<"e", "d", "i", "t", "i", "o", "n">>, <<"s", "t", "a", "n", "d", "a", "r", "d">> }

\* C5: the model/edition suffixes are the five words "le", "pro", "premium",
\* "edition", "standard": a machine whose canonical name ends in one of them,
\* and is no exact match, has 2 subtracted from its score.
C5_FiveEndingsPenalised ==
    LET cn == machine_data.cleaned_name
        words == split(cn)
    IN  ( /\ op = "score_match"
          /\ words # <<>>
          /\ words[Len(words)] \in FiveEndings
          /\ query_string # cn )
        => score_ret = Return(SpecifiedScore(query_string, cn, query_words, FiveEndings))

\* C9: score_match never raises, whatever name clean_name produced the
\* machine's cleaned_name from.
C9_ScoreMatchNeverRaises ==
    op = "score_match" => score_ret.exc = ""

\* C14: score_match returns 150 or more only for an exact match (the
\* canonical query equals the machine's canonical name), so that in
\* machine_by_name no other machine is ranked before an exact match and only
\* an exact match triggers the truncation.
C14_OnlyExactMatchReaches150 ==
    op = "score_match" /\ score_ret.exc = "" /\ score_ret.val >= EXACT_MATCH_SCORE
    => query_string = machine_data.cleaned_name

(***************************************************************************)
(* SpecSearch: the search of the command line (cli.py, lines 37-49): a      *)
(* client is constructed and searches the list of all machines by name     *)
(* once.  The result of machine_by_name depends on its arguments, on the   *)
(* API's list and on the cache entry only.                                 *)
(***************************************************************************)
\* lines 220-223 of get_all_machines: the answer of the API, every machine
\* patched with its cleaned name
fetched_machines(machines) ==
    [k \in DOMAIN machines |->
        [id |-> machines[k].id, name |-> machines[k].name,
         cleaned_name |-> CleanedNames[machines[k].name]]]

\* a client is constructed (lines 141-197); its cache, if it has one, may
\* hold the list an earlier client fetched
InitSearch ==
    /\ op = "init"
    /\ CleanIdle
    /\ ScoreIdle
    /\ ClientIdle
    /\ api_machines \in ApiMachineLists
    /\ use_cache \in BOOLEAN
    /\ cache_machines \in
           IF use_cache THEN {<<>>, fetched_machines(api_machines)} ELSE {<<>>}
    /\ search_call = NoCall
    /\ all_games = <<>>
    /\ search_ret = Return(<<>>)

\* machine_by_name(query, min_score, include_score), get_all_machines (lines
\* 207-226) included: a non-empty cache entry is returned as it is; otherwise
\* the list is requested (the request may fail), patched and cached
MachineByName ==
    \E query \in SearchQueries, min_score \in MinScores, include_score \in BOOLEAN,
       http_ok \in IF use_cache /\ cache_machines # <<>> THEN {TRUE} ELSE BOOLEAN :
        LET hit == use_cache /\ cache_machines # <<>>
            games == IF hit THEN cache_machines ELSE fetched_machines(api_machines)
        IN  /\ op' = "machine_by_name"
            /\ search_call' = [query_string |-> query, min_score |-> min_score,
                               include_score |-> include_score]
            /\ IF ~hit /\ ~http_ok
               THEN /\ all_games' = <<>>
                    /\ search_ret' = Raise("HTTPError")
                    /\ UNCHANGED cache_machines
               ELSE /\ all_games' = games_after_loop(games, CleanedQueries[query], min_score)
                    /\ cache_machines' = IF use_cache THEN games ELSE cache_machines
                    /\ search_ret' = machine_by_name(games, query, min_score, include_score)
            /\ UNCHANGED <<api_machines, use_cache, cleanVars, scoreVars, clientVars>>

\* the cache drops the entry after its 15 minutes (line 225)
CacheExpire ==
    /\ cache_machines # <<>>
    /\ cache_machines' = <<>>
    /\ UNCHANGED <<op, api_machines, use_cache, search_call, all_games, search_ret,
                   cleanVars, scoreVars, clientVars>>

\* the search command: one client, one call of machine_by_name
Search == op = "init" /\ MachineByName

NextSearch == Search \/ CacheExpire

SpecSearch == InitSearch /\ [][NextSearch]_vars

(***************************************************************************)
(* Properties of machine_by_name (checked under SpecSearch).               *)
(***************************************************************************)
\* the last call returned (it did not raise)
SearchReturned == op = "machine_by_name" /\ search_ret.exc = ""

\* the items of the returned tuple, without their scores
ReturnedItems ==
    IF search_call.include_score
    THEN [k \in DOMAIN search_ret.val |-> search_ret.val[k][1]]
    ELSE search_ret.val

\* the score of every machine of the catalog against the query of the last
\* call, by its index in the catalog
CatalogScores ==
    LET q == clean_name(search_call.query_string)
        qw == split(q)
    IN  [j \in DOMAIN all_games |-> score_match(q, all_games[j], qw).val]

\* for every returned item, the index in the catalog of the machine it was
\* copied from (0 if there is none)
ReturnedIndexes ==
    [k \in DOMAIN ReturnedItems |->
        IF \E j \in DOMAIN all_games :
               ReturnedItems[k] = [id |-> all_games[j].id, name |-> all_games[j].name]
        THEN CHOOSE j \in DOMAIN all_games :
               ReturnedItems[k] = [id |-> all_games[j].id, name |-> all_games[j].name]
        ELSE 0]

\* C1: every item machine_by_name returns scores at least min_score, and
\* every machine of the catalog with such a score is returned unless the
\* exact-match truncation cut it (four items are returned, none scoring less).
C1_ReturnsTheMatches ==
    SearchReturned =>
        LET score == CatalogScores
            at == ReturnedIndexes
            kept == {j \in DOMAIN all_games : score[j] >= search_call.min_score}
        IN  /\ \A k \in DOMAIN at : at[k] # 0 /\ score[at[k]] >= search_call.min_score
            /\ \A j \in kept :
                   \/ \E k \in DOMAIN at : at[k] = j
                   \/ /\ \E h \in kept : score[h] >= 150
                      /\ Len(at) = 4
                      /\ \A k \in DOMAIN at : score[at[k]] >= score[j]

\* a search that keeps some machines, one of them scoring just min_score,
\* and drops one that scores too low
C1_Witness ==
    /\ SearchReturned
    /\ Len(ReturnedItems) >= 2
    /\ LET score == CatalogScores
           at == ReturnedIndexes
       IN  /\ \E j \in DOMAIN all_games :
                  /\ score[j] < search_call.min_score
                  /\ \A k \in DOMAIN at : at[k] # j
           /\ \E k \in DOMAIN at : score[at[k]] = search_call.min_score

C3_SortedStable ==
    SearchReturned =>
        LET score == CatalogScores
            at == ReturnedIndexes
        IN  \A k, l \in DOMAIN at :
                k < l =>
                    /\ at[k] # 0 /\ at[l] # 0
                    /\ score[at[k]] >= score[at[l]]
                    /\ score[at[k]] = score[at[l]] => at[k] < at[l]

\* a result with two items of equal score behind a better one that comes
\* later in the catalog
C3_Witness ==
    /\ SearchReturned
    /\ Len(ReturnedItems) >= 3
    /\ LET score == CatalogScores
           at == ReturnedIndexes
       IN  /\ score[at[1]] > score[at[2]]
           /\ score[at[2]] = score[at[3]]
           /\ at[1] > at[3]

(***************************************************************************)
(* SpecCatalog: one client and any sequence of machine_by_name calls.      *)
(***************************************************************************)
MaxCatalog == 3

CatalogLists ==
    { [k \in DOMAIN names |-> [id |-> k, name |-> names[k]]] :
          names \in StringsUpTo(MachineNames, MaxCatalog) }

InitCatalog ==
    /\ op = "init"
    /\ CleanIdle
    /\ ScoreIdle
    /\ ClientIdle
    /\ api_machines \in CatalogLists
    /\ use_cache \in BOOLEAN
    /\ cache_machines = <<>>
    /\ search_call = NoCall
    /\ all_games = <<>>
    /\ search_ret = Return(<<>>)

NextCatalog == MachineByName \/ CacheExpire

SpecCatalog == InitCatalog /\ [][NextCatalog]_vars

\* the list holds the machines of the API's answer, in its order, each with
\* the clean_name of its name as cleaned_name
is_patched_catalog(games) ==
    /\ Len(games) = Len(api_machines)
    /\ \A j \in DOMAIN games :
           /\ DOMAIN games[j] = {"id", "name", "cleaned_name"}
           /\ games[j].id = api_machines[j].id
           /\ games[j].name = api_machines[j].name
           /\ games[j].cleaned_name = clean_name(games[j].name)

\* C17: machine_by_name only reads the catalog: after any sequence of calls
\* the list get_all_machines returned, and the cached copy of it, have the
\* same items in the same order, each with cleaned_name = clean_name(name),
\* and no returned item has a cleaned_name key.
C17_CatalogIsOnlyRead ==
    /\ SearchReturned => is_patched_catalog(all_games)
    /\ cache_machines # <<>> => is_patched_catalog(cache_machines)
    /\ SearchReturned =>
           \A k \in DOMAIN ReturnedItems : DOMAIN ReturnedItems[k] = {"id", "name"}

\* a search over the cached list that returned two machines or more
C17_Witness ==
    /\ SearchReturned
    /\ use_cache
    /\ cache_machines # <<>>
    /\ Len(ReturnedItems) >= 2
    /\ Len(all_games) > Len(ReturnedItems)

(***************************************************************************)
(* Spec: a client of one location and its write operations.                *)
(***************************************************************************)
\* the state of the client and of Pinball Map the operations act on
ClientState ==
    [location |-> LOCATION_ID, token |-> authentication_token, email |-> user_email,
     lmxs |-> lmxs, cache |-> cache_lmxs, map |-> map_lmxs, next |-> next_lmx_id, sent |-> sent]

SetClientState(c) ==
    /\ authentication_token' = c.token
    /\ user_email' = c.email
    /\ lmxs' = c.lmxs
    /\ cache_lmxs' = c.cache
    /\ map_lmxs' = c.map
    /\ next_lmx_id' = c.next
    /\ sent' = c.sent

\* what Pinball Map lists at first: machine 1 at the other location, and at
\* the client's location machine 1 or nothing
InitialMaps ==
    { {[id |-> 1, location |-> OTHER_LOCATION, machine |-> 1]} \cup own :
          own \in SUBSET {[id |-> 2, location |-> LOCATION_ID, machine |-> 1]} }

\* __init__ (lines 141-197): the credentials given; a client with an email and
\* a password and no token asks for its token, and goes on without if the
\* request fails (lines 183-193)
Init ==
    /\ op = "init"
    /\ CleanIdle
    /\ ScoreIdle
    /\ api_machines = <<>>
    /\ use_cache \in BOOLEAN
    /\ cache_machines = <<>>
    /\ search_call = NoCall
    /\ all_games = <<>>
    /\ search_ret = Return(<<>>)
    /\ user_password \in Passwords
    /\ dry_run \in BOOLEAN
    /\ \E token \in Tokens, email \in Emails :
           \* Pinball Map knows the email and the password, or not
           /\ account_ok \in IF email # "" /\ user_password # "" THEN BOOLEAN ELSE {FALSE}
           /\ \E auth \in AuthAnswers(account_ok) :
                  IF token = "" /\ email # "" /\ user_password # "" /\ auth = "user"
                  THEN authentication_token = ServerToken /\ user_email = ServerEmail
                  ELSE authentication_token = token /\ user_email = email
    /\ lmxs = <<>>
    /\ cache_lmxs = <<>>
    /\ map_lmxs \in InitialMaps
    /\ next_lmx_id = 3
    /\ sent = {}
    /\ write_call = NoWrite
    /\ write_ret = Return(<<>>)
    /\ guard = NoGuard
    /\ update = NoUpdate

\* the wrapper's outcome for the client as it is, auth answering auth_details
Guard(auth) ==
    requires_authorization(authentication_token, user_email, user_password, auth)

Authorized(g) == [ClientState EXCEPT !.token = g.token, !.email = g.email]

\* what the wrapper did, and the token and email the client held at the call
GuardLog(g) ==
    [entered |-> g.entered, token |-> g.token, email |-> g.email, asked |-> g.asked,
     token_before |-> authentication_token, email_before |-> user_email]

\* the call and the machines Pinball Map listed for the location when it was made
WriteCall(fn, machine_id, machine_ids) ==
    [fn |-> fn, machine_id |-> machine_id, machine_ids |-> machine_ids,
     listed_before |-> listed_machines(map_lmxs, LOCATION_ID)]

\* the answers the requests of a call can get: auth_details is asked only by
\* a client with no token, an email and a password; nothing is written in
\* dry-run mode; the LMXs are requested only if neither self.lmxs nor the
\* cache has them
AuthAsked ==
    IF authentication_token = "" /\ user_email # "" /\ user_password # ""
    THEN AuthAnswers(account_ok)
    ELSE {"unasked"}
WriteAsked == IF dry_run THEN {"unsent"} ELSE WriteAnswers
LmxsAsked ==
    IF Len(lmxs) > 0 \/ (use_cache /\ cache_lmxs # <<>>) THEN {TRUE} ELSE BOOLEAN

\* client.add_machine(machine_id)
AddMachine ==
    \E machine_id \in Machines, auth \in AuthAsked, answer \in WriteAsked :
        LET g == Guard(auth)
            r == guarded(ClientState, g, add_machine(Authorized(g), dry_run, machine_id, answer))
        IN  /\ ~update.active
            /\ op' = "add_machine"
            /\ SetClientState(r.c)
            /\ write_call' = WriteCall("add_machine", machine_id, {})
            /\ write_ret' = r.ret
            /\ guard' = GuardLog(g)
            /\ UNCHANGED <<user_password, dry_run, account_ok, update,
                           cleanVars, scoreVars, searchVars>>

\* client.remove_machine(machine_id)
RemoveMachine ==
    \E machine_id \in Machines, auth \in AuthAsked,
       http_ok \in LmxsAsked, answer \in WriteAsked :
        LET g == Guard(auth)
            r == guarded(ClientState, g,
                         remove_machine(Authorized(g), dry_run, use_cache, machine_id,
                                        http_ok, answer))
        IN  /\ ~update.active
            /\ op' = "remove_machine"
            /\ SetClientState(r.c)
            /\ write_call' = WriteCall("remove_machine", machine_id, {})
            /\ write_ret' = r.ret
            /\ guard' = GuardLog(g)
            /\ UNCHANGED <<user_password, dry_run, account_ok, update,
                           cleanVars, scoreVars, searchVars>>

\* client.update_map(machine_ids) up to its loops: the guard, then
\* compare_location (lines 364-369), whose request for the machines of the
\* location (lines 342-354) may fail
UpdateMap ==
    \E machine_ids \in SUBSET Machines, auth \in AuthAsked, http_ok \in BOOLEAN :
        LET g == Guard(auth)
            map_machine_ids == listed_machines(map_lmxs, LOCATION_ID)
        IN  /\ ~update.active
            /\ op' = "update_map_call"
            /\ authentication_token' = g.token
            /\ user_email' = g.email
            /\ write_call' = WriteCall("update_map", 0, machine_ids)
            /\ guard' = GuardLog(g)
            /\ IF ~g.entered
               THEN write_ret' = Raise(g.exc) /\ update' = NoUpdate
               ELSE IF ~http_ok
               THEN write_ret' = Raise("HTTPError") /\ update' = NoUpdate
               ELSE /\ write_ret' = Return(<<>>)
                    /\ update' = [active |-> TRUE,
                                  add |-> machine_ids \ map_machine_ids,
                                  remove |-> map_machine_ids \ machine_ids,
                                  ignore |-> machine_ids \cap map_machine_ids,
                                  added |-> {}, removed |-> {}, errors |-> {}]
            /\ UNCHANGED <<user_password, dry_run, mapVars, cleanVars, scoreVars, searchVars>>

\* one turn of the loop of lines 473-479: self.add_machine(machine_id), the
\* wrapped method, and except Exception
UpdateMapAdd ==
    \E machine_id \in update.add, auth \in AuthAsked, answer \in WriteAsked :
        LET g == Guard(auth)
            r == guarded(ClientState, g, add_machine(Authorized(g), dry_run, machine_id, answer))
        IN  /\ update.active
            /\ op' = "update_map_add"
            /\ SetClientState(r.c)
            /\ guard' = GuardLog(g)
            /\ update' = IF r.ret.exc # ""
                         THEN [update EXCEPT !.add = @ \ {machine_id},
                                             !.errors = @ \cup {machine_id}]
                         ELSE [update EXCEPT !.add = @ \ {machine_id},
                                             !.added = @ \cup {machine_id}]
            /\ UNCHANGED <<user_password, dry_run, account_ok, write_call, write_ret,
                           cleanVars, scoreVars, searchVars>>

\* one turn of the loop of lines 480-486, after the loop of the additions
UpdateMapRemove ==
    \E machine_id \in update.remove, auth \in AuthAsked,
       http_ok \in LmxsAsked, answer \in WriteAsked :
        LET g == Guard(auth)
            r == guarded(ClientState, g,
                         remove_machine(Authorized(g), dry_run, use_cache, machine_id,
                                        http_ok, answer))
        IN  /\ update.active
            /\ update.add = {}
            /\ op' = "update_map_remove"
            /\ SetClientState(r.c)
            /\ guard' = GuardLog(g)
            /\ update' = IF r.ret.exc # ""
                         THEN [update EXCEPT !.remove = @ \ {machine_id},
                                             !.errors = @ \cup {machine_id}]
                         ELSE [update EXCEPT !.remove = @ \ {machine_id},
                                             !.removed = @ \cup {machine_id}]
            /\ UNCHANGED <<user_password, dry_run, account_ok, write_call, write_ret,
                           cleanVars, scoreVars, searchVars>>

\* lines 487-493: update_map returns its counts
UpdateMapReturn ==
    /\ update.active
    /\ update.add = {}
    /\ update.remove = {}
    /\ op' = "update_map"
    /\ write_ret' = Return([added |-> Cardinality(update.added),
                            removed |-> Cardinality(update.removed),
                            ignored |-> Cardinality(update.ignore),
                            errors |-> update.errors,
                            error_count |-> Cardinality(update.errors)])
    /\ update' = NoUpdate
    /\ UNCHANGED <<authVars, mapVars, write_call, guard, cleanVars, scoreVars, searchVars>>

\* client.get_location_machine_xrefs()
GetLocationMachineXrefs ==
    \E http_ok \in LmxsAsked :
        LET got == get_location_machine_xrefs(ClientState, use_cache, http_ok)
        IN  /\ ~update.active
            /\ op' = "get_location_machine_xrefs"
            /\ SetClientState(got.c)
            /\ write_call' = WriteCall("get_location_machine_xrefs", 0, {})
            /\ write_ret' = IF got.exc # "" THEN Raise(got.exc) ELSE Return(got.data)
            /\ UNCHANGED <<user_password, dry_run, account_ok, guard, update,
                           cleanVars, scoreVars, searchVars>>

\* a new client of another location, with the same cache and cache_key_prefix,
\* calls get_location_machine_xrefs
OtherClient ==
    [location |-> OTHER_LOCATION, token |-> "", email |-> "", lmxs |-> <<>>,
     cache |-> cache_lmxs, map |-> map_lmxs, next |-> next_lmx_id, sent |-> sent]

OtherGetLocationMachineXrefs ==
    LET got == get_location_machine_xrefs(OtherClient, use_cache, TRUE)
    IN  /\ use_cache
        /\ cache_lmxs = <<>>
        /\ cache_lmxs' = got.c.cache
        /\ UNCHANGED <<op, authVars, lmxs, map_lmxs, next_lmx_id, account_ok, sent,
                       callVars, cleanVars, scoreVars, searchVars>>

\* the cache drops the LMXs after its 15 minutes (line 269)
LmxCacheExpire ==
    /\ cache_lmxs # <<>>
    /\ cache_lmxs' = <<>>
    /\ UNCHANGED <<op, authVars, lmxs, map_lmxs, next_lmx_id, account_ok, sent,
                   callVars, cleanVars, scoreVars, searchVars>>

Next ==
    \/ AddMachine
    \/ RemoveMachine
    \/ UpdateMap
    \/ UpdateMapAdd
    \/ UpdateMapRemove
    \/ UpdateMapReturn
    \/ GetLocationMachineXrefs
    \/ OtherGetLocationMachineXrefs
    \/ LmxCacheExpire

Spec == Init /\ [][Next]_vars

\* the write operations whose call has just ended at its guard or in its body
WriteOps == {"add_machine", "remove_machine", "update_map_call",
             "update_map_add", "update_map_remove"}

\* C10: a write operation (add_machine, remove_machine, update_map) executes
\* its body, and so sends a POST or a DELETE, only if the client then holds a
\* non-empty authentication_token and a non-empty user_email; every other call
\* raises TokenRequiredException.
C10_WriteNeedsTokenAndEmail ==
    /\ op \in WriteOps /\ guard.entered => guard.token # "" /\ guard.email # ""
    /\ \A request \in sent : request.user_token # "" /\ request.user_email # ""
    /\ op \in {"add_machine", "remove_machine", "update_map_call"}
       /\ (guard.token = "" \/ guard.email = "")
       => write_ret.exc = "TokenRequiredException"

\* C11: while dry_run is true, no call of add_machine, remove_machine or
\* update_map sends a POST or a DELETE, and the machines Pinball Map lists for
\* the location stay as they are.
C11_DryRunSendsNothing ==
    [][dry_run =>
         /\ sent' = sent
         /\ listed_machines(map_lmxs', LOCATION_ID) = listed_machines(map_lmxs, LOCATION_ID)]_vars

\* update_map has returned in dry-run mode after a turn of each of its loops
C11_Witness ==
    /\ dry_run
    /\ op = "update_map"
    /\ write_ret.exc = ""
    /\ write_ret.val.added = 1
    /\ write_ret.val.removed = 1
    /\ sent = {}

\* C12: after update_map(machine_ids) has returned with error_count = 0 on an
\* authorized client that is not in dry-run mode, the machines Pinball Map
\* lists for the location are machine_ids, whatever calls came before.
C12_UpdateMapSynchronises ==
    /\ op = "update_map"
    /\ write_ret.exc = ""
    /\ write_ret.val.error_count = 0
    /\ ~dry_run
    /\ valid_credentials(ClientState)
    => listed_machines(map_lmxs, LOCATION_ID) = write_call.machine_ids

\* C13: every LMX get_location_machine_xrefs returns (and keeps in
\* self.lmxs) has the location_id of the client that called it, whatever
\* clients share its cache and cache_key_prefix.
C13_LmxsAreOfMyLocation ==
    /\ \A k \in DOMAIN lmxs : lmxs[k].location = LOCATION_ID
    /\ op = "get_location_machine_xrefs" /\ write_ret.exc = ""
       => \A k \in DOMAIN write_ret.val : write_ret.val[k].location = LOCATION_ID

\* C15: a write operation called on a client with no authentication_token
\* but with a user_email and a user_password asks auth_details once; if it
\* answers with the user, the body runs with the obtained token stored on the
\* client; if it raises PinballMapAuthenticationFailure, the body does not
\* run, TokenRequiredException is raised and authentication_token and
\* user_email are as they were.
C15_GuardAsksForToken ==
    ( /\ op \in WriteOps
      /\ guard.token_before = ""
      /\ guard.email_before # ""
      /\ user_password # "" )
    => /\ Len(guard.asked) = 1
       /\ guard.asked = <<"user">> =>
              /\ guard.entered
              /\ guard.token = ServerToken
              /\ authentication_token = ServerToken
              /\ \A request \in sent : request.user_token = ServerToken
       /\ guard.asked = <<"errors">> =>
              /\ ~guard.entered
              /\ write_ret = Raise("TokenRequiredException")
              /\ authentication_token = guard.token_before
              /\ user_email = guard.email_before
              /\ sent = {}

\* remove_machine was refused after auth_details rejected the credentials
C15_Witness ==
    /\ op = "remove_machine"
    /\ guard.token_before = ""
    /\ guard.email_before # ""
    /\ user_password # ""
    /\ guard.asked = <<"errors">>
    /\ write_ret = Raise("TokenRequiredException")

\* C16: the dict update_map returns has added equal to the number of machines
\* the call added to the map, removed equal to the number it removed, ignored
\* equal to the number of given ids already listed; every id to add or to
\* remove is counted once, in added, removed or errors, and error_count is
\* the size of errors.
C16_CountsAreActual ==
    op = "update_map" /\ write_ret.exc = ""
    => LET counts == write_ret.val
           before == write_call.listed_before
           now == listed_machines(map_lmxs, LOCATION_ID)
           given == write_call.machine_ids
       IN  /\ counts.added = Cardinality(now \ before)
           /\ counts.removed = Cardinality(before \ now)
           /\ counts.ignored = Cardinality(given \cap before)
           /\ counts.error_count = Cardinality(counts.errors)
           /\ counts.added + counts.removed + counts.error_count
                  = Cardinality((given \ before) \cup (before \ given))

=============================================================================
